---------------------------- MODULE Spec2Model ----------------------------
(***************************************************************************)
(* NoxSolver / NoxDiscreteProblem (hermes_common/include/solvers/          *)
(* nox_solver.h): the configuration setters of the solver facade, and one  *)
(* solve call as a state machine.                                          *)
(*                                                                         *)
(* The header holds the bodies of the inline setters and accessors only.   *)
(* The constructor, solve, set_precond and the three callbacks of          *)
(* NoxDiscreteProblem are declared in the header and defined elsewhere;    *)
(* they are modelled from the design description of the facade (data      *)
(* model, component design, error handling).                               *)
(*                                                                         *)
(* Real-valued quantities (tolerances, norms, vector components) are small *)
(* naturals.  The unknown vector has one component.                        *)
(***************************************************************************)
EXTENDS Integers, Sequences, FiniteSets, TLC

\* ------------------------------------------------------------------ bounds

\* Largest value passed to set_conv_iters.
MaxIters == 2
\* Largest residual norm the problem produces.
MaxNorm == 2
\* Largest value of the (single) component of the solution vector.
MaxVal == 1
\* Reduced-step retries the engine attempts per outer iteration before it
\* declares the step fatal.
MaxRetries == 1
\* A relative tolerance k stands for the fraction k / RelDen.
RelDen == 2

\* ----------------------------------------------------------------- domains

Tols == {0, 1}
Norms == 0..MaxNorm
Vals == 0..MaxVal
Updates == (0 - MaxVal)..MaxVal
Caps == 0..MaxIters

\* The method names documented at set_ls_type.
LSTypes == {"GMRES", "CG", "CGS", "TFQMR", "BiCGStab", "LU"}
\* Names a caller may pass: the documented ones and an unrecognized one.
LSNames == LSTypes \cup {"Jacobi"}
LSIters == 0..1
LSTols == 0..1
KrylovSizes == 0..1

\* Teuchos::RCP<Precond>: a null handle or a handle to a preconditioner object.
NoPrecond == "null"
PrecondObjects == {"pc1"}
\* Built-in preconditioner names; NoPrecondName: no built-in one selected.
NoPrecondName == "None"
PrecondNames == {"ML"}

Tests == {"absresid", "relresid", "update", "wrms"}
Terminal == {"Converged", "Failed"}

Abs(n) == IF n < 0 THEN 0 - n ELSE n

VARIABLES
  conv_flag,                  \* NoxSolver::conv_flag
  conv,                       \* NoxSolver::conv
  ls_type,                    \* NoxSolver::ls_type
  ls_max_iters,               \* NoxSolver::ls_max_iters
  ls_tolerance,               \* NoxSolver::ls_tolerance
  ls_sizeof_krylov_subspace,  \* NoxSolver::ls_sizeof_krylov_subspace
  precond_type,               \* NoxSolver::precond_type
  precond,                    \* NoxDiscreteProblem::precond
  num_iters,                  \* NoxSolver::num_iters
  phase,                      \* position of the solve call
  status,                     \* outcome of the most recent solve call
  x,                          \* coeff_vec, the in/out solution vector
  x0,                         \* the initial guess the caller passed
  rnorm,                      \* norm of the current residual
  r0,                         \* norm of the initial residual
  dx,                         \* the last solution increment
  retries,                    \* reduced-step retries in this outer iteration
  fOK,                        \* some computeF call of this solve succeeded
  everSat,                    \* a test the caller enabled was satisfied at an evaluation
  last,                       \* last engine event of this solve
  did,                        \* callbacks / steps performed in this solve
  conv_req,                   \* the convergence configuration the caller's calls ask for
  ls_req,                     \* the caller's most recent linear-solver arguments
  pc_req                      \* the caller's most recent set_precond call

confVars == <<conv_flag, conv, conv_req>>
lsVars == <<ls_type, ls_max_iters, ls_tolerance, ls_sizeof_krylov_subspace, ls_req>>
pcVars == <<precond_type, precond, pc_req>>
runVars == <<num_iters, phase, status, x, x0, rnorm, r0, dx, retries, fOK,
             everSat, last, did>>
vars == <<conv_flag, conv, ls_type, ls_max_iters, ls_tolerance,
          ls_sizeof_krylov_subspace, precond_type, precond, num_iters,
          phase, status, x, x0, rnorm, r0, dx, retries, fOK, everSat,
          last, did, conv_req, ls_req, pc_req>>

NoneDone == [jac |-> FALSE, prec |-> FALSE, step |-> FALSE]

\* --------------------------------------------------- convergence setters
\* Each setter is a function of the configuration c = [flag, conv].

Cfg == [flag |-> conv_flag, conv |-> conv]

\* set_conv_iters losing its argument.
set_conv_iters_lost(c, iters) == c

\* set_conv_iters raising a cap of 0 to 1.
set_conv_iters_atLeastOne(c, iters) ==
  [c EXCEPT !.conv.max_iters = IF iters < 1 THEN 1 ELSE iters]

set_conv_iters(c, iters) == [c EXCEPT !.conv.max_iters = iters]

\* set_conv_abs_resid storing the tolerance without raising the flag.
set_conv_abs_resid_noFlag(c, resid) == [c EXCEPT !.conv.abs_resid = resid]

set_conv_abs_resid(c, resid) ==
  [c EXCEPT !.flag.absresid = 1, !.conv.abs_resid = resid]

\* set_conv_rel_resid storing its tolerance in the absolute one's field.
set_conv_rel_resid_wrongField(c, resid) ==
  [c EXCEPT !.flag.relresid = 1, !.conv.abs_resid = resid]

set_conv_rel_resid(c, resid) ==
  [c EXCEPT !.flag.relresid = 1, !.conv.rel_resid = resid]

\* disable_abs_resid clearing the relative test's flag instead of its own.
disable_abs_resid_wrongFlag(c) == [c EXCEPT !.flag.relresid = 0]

disable_abs_resid(c) == [c EXCEPT !.flag.absresid = 0]

\* disable_rel_resid clearing the neighbouring bit-field as well.
disable_rel_resid_wrongBit(c) ==
  [c EXCEPT !.flag.relresid = 0, !.flag.wrms = 0]

disable_rel_resid(c) == [c EXCEPT !.flag.relresid = 0]

set_conv_update(c, update) ==
  [c EXCEPT !.flag.update = 1, !.conv.update = update]

set_conv_wrms(c, rtol, atol) ==
  [c EXCEPT !.flag.wrms = 1, !.conv.wrms_rtol = rtol, !.conv.wrms_atol = atol]

\* A configuration call, allowed between solve calls only (solve blocks):
\* c is the configuration the setter leaves, r the one the call asks for.
Configure(c, r) ==
  /\ phase = "Idle"
  /\ conv_flag' = c.flag
  /\ conv' = c.conv
  /\ conv_req' = r
  /\ UNCHANGED <<lsVars, pcVars, runVars>>

Call_set_conv_iters ==
  \E iters \in Caps :
    Configure(set_conv_iters(Cfg, iters),
              [conv_req EXCEPT !.conv.max_iters = iters])

Call_set_conv_abs_resid ==
  \E r \in Tols :
    Configure(set_conv_abs_resid(Cfg, r),
              [conv_req EXCEPT !.flag.absresid = 1, !.conv.abs_resid = r])

Call_set_conv_rel_resid ==
  \E r \in Tols :
    Configure(set_conv_rel_resid(Cfg, r),
              [conv_req EXCEPT !.flag.relresid = 1, !.conv.rel_resid = r])

Call_disable_abs_resid ==
  Configure(disable_abs_resid(Cfg), [conv_req EXCEPT !.flag.absresid = 0])

Call_disable_rel_resid ==
  Configure(disable_rel_resid(Cfg), [conv_req EXCEPT !.flag.relresid = 0])

Call_set_conv_update ==
  \E u \in Tols :
    Configure(set_conv_update(Cfg, u),
              [conv_req EXCEPT !.flag.update = 1, !.conv.update = u])

Call_set_conv_wrms ==
  \E rtol \in Tols, atol \in Tols :
    Configure(set_conv_wrms(Cfg, rtol, atol),
              [conv_req EXCEPT !.flag.wrms = 1, !.conv.wrms_rtol = rtol,
                               !.conv.wrms_atol = atol])

\* --------------------------------------------------- linear solver setters
\* Each setter stores its argument; the operator is the value stored.

set_ls_type(type) == type

\* set_ls_max_iters clamping a non-positive argument to 1.
set_ls_max_iters_clamped(iters) == IF iters < 1 THEN 1 ELSE iters

set_ls_max_iters(iters) == iters

set_ls_tolerance(tolerance) == tolerance

set_ls_sizeof_krylov_subspace(size) == size

Call_set_ls_type ==
  /\ phase = "Idle"
  /\ \E type \in LSNames :
       /\ ls_type' = set_ls_type(type)
       /\ ls_req' = [ls_req EXCEPT !.type = type]
  /\ UNCHANGED <<confVars, ls_max_iters, ls_tolerance,
                 ls_sizeof_krylov_subspace, pcVars, runVars>>

Call_set_ls_max_iters ==
  /\ phase = "Idle"
  /\ \E iters \in LSIters :
       /\ ls_max_iters' = set_ls_max_iters(iters)
       /\ ls_req' = [ls_req EXCEPT !.max_iters = iters]
  /\ UNCHANGED <<confVars, ls_type, ls_tolerance,
                 ls_sizeof_krylov_subspace, pcVars, runVars>>

Call_set_ls_tolerance ==
  /\ phase = "Idle"
  /\ \E tolerance \in LSTols :
       /\ ls_tolerance' = set_ls_tolerance(tolerance)
       /\ ls_req' = [ls_req EXCEPT !.tolerance = tolerance]
  /\ UNCHANGED <<confVars, ls_type, ls_max_iters,
                 ls_sizeof_krylov_subspace, pcVars, runVars>>

Call_set_ls_sizeof_krylov_subspace ==
  /\ phase = "Idle"
  /\ \E size \in KrylovSizes :
       /\ ls_sizeof_krylov_subspace' = set_ls_sizeof_krylov_subspace(size)
       /\ ls_req' = [ls_req EXCEPT !.krylov = size]
  /\ UNCHANGED <<confVars, ls_type, ls_max_iters, ls_tolerance,
                 pcVars, runVars>>

\* --------------------------------------------------- preconditioner setters
\* The two overloads of NoxSolver::set_precond, as functions giving the pair
\* (ndp.precond, precond_type) they leave: setting one source overrides the
\* other.

set_precond_object(pc) == [obj |-> pc, name |-> NoPrecondName]

\* set_precond(name) leaving an attached preconditioner object in place.
set_precond_name_keepsObject(pc) == [obj |-> precond, name |-> pc]

set_precond_name(pc) == [obj |-> NoPrecond, name |-> pc]

\* NoxDiscreteProblem::get_precond
get_precond == precond

Call_set_precond_object ==
  /\ phase = "Idle"
  /\ \E pc \in PrecondObjects :
       /\ precond' = set_precond_object(pc).obj
       /\ precond_type' = set_precond_object(pc).name
       /\ pc_req' = [kind |-> "object", val |-> pc, before |-> pc_req.kind]
  /\ UNCHANGED <<confVars, lsVars, runVars>>

Call_set_precond_name ==
  /\ phase = "Idle"
  /\ \E pc \in PrecondNames :
       /\ precond' = set_precond_name(pc).obj
       /\ precond_type' = set_precond_name(pc).name
       /\ pc_req' = [kind |-> "name", val |-> pc, before |-> pc_req.kind]
  /\ UNCHANGED <<confVars, lsVars, runVars>>

\* ------------------------------------------------------------------ solve

\* LinearSolverConfig validation, done at solve entry: the method is one of
\* the documented ones, the iteration cap and the tolerance are positive.
\* The Krylov subspace size plays no part.
ValidLS ==
  /\ ls_type \in LSTypes
  /\ ls_max_iters > 0
  /\ ls_tolerance > 0

\* One value-based test, with the tolerances cv, on the current residual and
\* update.  The update-based tests have nothing to test before the first step.
TestSatisfied(cv, t) ==
  CASE t = "absresid" -> rnorm <= cv.abs_resid
    [] t = "relresid" -> rnorm * RelDen <= cv.rel_resid * r0
    [] t = "update"   -> num_iters > 0 /\ Abs(dx) <= cv.update
    [] t = "wrms"     -> /\ num_iters > 0
                         /\ Abs(dx) <= cv.wrms_atol + cv.wrms_rtol * Abs(x)

\* The composite stopping test: OR of the enabled value-based tests for
\* success, the iteration cap as the failure test, success taking precedence.
CompositeTest ==
  IF \E t \in Tests : conv_flag[t] = 1 /\ TestSatisfied(conv, t) THEN "Converged"
  ELSE IF num_iters >= conv.max_iters THEN "Failed"
  ELSE "Unconverged"

\* The outer loop going on to the Jacobian whatever the test decided.
AfterTest_alwaysOn(decision) == "Jac"

\* Where the outer loop goes on a decision of the composite test.
AfterTest(decision) ==
  CASE decision = "Converged" -> "Converged"
    [] decision = "Failed" -> "Failed"
    [] OTHER -> "Jac"

\* The initial guess not told apart: a failed first evaluation is retried as
\* if a step had been taken.
OnResidualFailure_noInitialCase(n, r) ==
  IF r < MaxRetries THEN {"retry", "fatal"} ELSE {"fatal"}

\* What the engine may do when computeF fails with n outer iterations done and
\* r reduced-step retries spent: at the initial guess there is no step to
\* reject, so the failure is fatal; later the step is rejected, and retried
\* while retries remain.
OnResidualFailure(n, r) ==
  IF n = 0 THEN {"fatal"}
  ELSE IF r < MaxRetries THEN {"retry", "fatal"}
  ELSE {"fatal"}

\* solve(coeff_vec): entry.
Solve ==
  /\ phase = "Idle"
  /\ \E guess \in Vals :
       /\ x' = guess
       /\ x0' = guess
  /\ num_iters' = 0
  /\ IF ValidLS
       THEN /\ phase' = "EvalF"
            /\ status' = "running"
       ELSE /\ phase' = "Failed"
            /\ status' = "config_error"
  /\ UNCHANGED <<confVars, lsVars, pcVars, rnorm, r0, dx, retries, fOK,
                 everSat, last, did>>

\* NoxDiscreteProblem::computeF
ComputeF ==
  /\ phase = "EvalF"
  /\ last' = "F"
  /\ \/ /\ \E n \in Norms :
             /\ rnorm' = n
             /\ r0' = IF num_iters = 0 THEN n ELSE r0
        /\ fOK' = TRUE
        /\ retries' = 0
        /\ phase' = "Test"
        /\ UNCHANGED <<x, num_iters, status>>
     \/ /\ \E act \in OnResidualFailure(num_iters, retries) :
             IF act = "fatal"
               THEN /\ phase' = "Failed"
                    /\ status' = "fatal"
                    /\ UNCHANGED <<x, num_iters, retries>>
               ELSE /\ phase' = "Step"
                    /\ x' = x - dx
                    /\ num_iters' = num_iters - 1
                    /\ retries' = retries + 1
                    /\ UNCHANGED status
        /\ UNCHANGED <<rnorm, r0, fOK>>
  /\ UNCHANGED <<confVars, lsVars, pcVars, x0, dx, everSat, did>>

\* Evaluation of the composite convergence test.
StatusTest ==
  /\ phase = "Test"
  /\ last' = "T"
  /\ phase' = AfterTest(CompositeTest)
  /\ everSat' = (everSat \/ \E t \in Tests :
                               conv_req.flag[t] = 1 /\ TestSatisfied(conv_req.conv, t))
  /\ status' = CASE CompositeTest = "Converged" -> "converged"
                 [] CompositeTest = "Failed" -> "cap"
                 [] OTHER -> status
  /\ UNCHANGED <<confVars, lsVars, pcVars, num_iters, x, x0, rnorm, r0,
                 dx, retries, fOK, did>>

\* NoxDiscreteProblem::computeJacobian
ComputeJacobian ==
  /\ phase = "Jac"
  /\ last' = "J"
  /\ \E ok \in BOOLEAN :
       IF ok THEN /\ phase' = "Prec"
                  /\ did' = [did EXCEPT !.jac = TRUE]
                  /\ UNCHANGED status
             ELSE /\ phase' = "Failed"
                  /\ status' = "fatal"
                  /\ UNCHANGED did
  /\ UNCHANGED <<confVars, lsVars, pcVars, num_iters, x, x0, rnorm, r0,
                 dx, retries, fOK, everSat>>

\* NoxDiscreteProblem::computePreconditioner
ComputePreconditioner ==
  /\ phase = "Prec"
  /\ IF get_precond = NoPrecond
       THEN /\ phase' = "Step"
            /\ UNCHANGED <<status, did, last>>
       ELSE /\ last' = "P"
            /\ \E ok \in BOOLEAN :
                 IF ok THEN /\ phase' = "Step"
                            /\ did' = [did EXCEPT !.prec = TRUE]
                            /\ UNCHANGED status
                       ELSE /\ phase' = "Failed"
                            /\ status' = "fatal"
                            /\ UNCHANGED did
  /\ UNCHANGED <<confVars, lsVars, pcVars, num_iters, x, x0, rnorm, r0,
                 dx, retries, fOK, everSat>>

\* One inexact Newton step through the linear solver.
NewtonStep ==
  /\ phase = "Step"
  /\ last' = "S"
  /\ did' = [did EXCEPT !.step = TRUE]
  /\ \E ok \in BOOLEAN :
       IF ok THEN /\ \E d \in Updates :
                       /\ x + d \in Vals
                       /\ dx' = d
                  /\ phase' = "Accept"
                  /\ UNCHANGED status
             ELSE /\ phase' = "Failed"
                  /\ status' = "fatal"
                  /\ UNCHANGED dx
  /\ UNCHANGED <<confVars, lsVars, pcVars, num_iters, x, x0, rnorm, r0,
                 retries, fOK, everSat>>

\* The engine accepts the step, or rejects it and retries or gives up.
AcceptReject ==
  /\ phase = "Accept"
  /\ last' = "A"
  /\ \E act \in {"accept"} \cup OnResidualFailure(num_iters + 1, retries) :
       CASE act = "accept" ->
              /\ x' = x + dx
              /\ num_iters' = num_iters + 1
              /\ phase' = "EvalF"
              /\ UNCHANGED <<retries, status>>
         [] act = "retry" ->
              /\ retries' = retries + 1
              /\ phase' = "Step"
              /\ UNCHANGED <<x, num_iters, status>>
         [] OTHER ->
              /\ phase' = "Failed"
              /\ status' = "fatal"
              /\ UNCHANGED <<x, num_iters, retries>>
  /\ UNCHANGED <<confVars, lsVars, pcVars, x0, rnorm, r0, dx, fOK, everSat,
                 did>>

\* solve returns: the facade is Idle again and the statistics stay readable.
\* The vector is the caller's from here on; the next solve gets a new guess.
Return ==
  /\ phase \in Terminal
  /\ phase' = "Idle"
  /\ x' = 0 /\ x0' = 0 /\ rnorm' = 0 /\ r0' = 0 /\ dx' = 0 /\ retries' = 0
  /\ fOK' = FALSE
  /\ everSat' = FALSE
  /\ last' = "none"
  /\ did' = NoneDone
  /\ UNCHANGED <<confVars, lsVars, pcVars, num_iters, status>>

SolveStep ==
  \/ ComputeF
  \/ StatusTest
  \/ ComputeJacobian
  \/ ComputePreconditioner
  \/ NewtonStep
  \/ AcceptReject
  \/ Return

\* ------------------------------------------------------------ specifications

\* The state the constructor leaves.
Init ==
  /\ conv_flag = [absresid |-> 0, relresid |-> 0, wrms |-> 0, update |-> 0]
  /\ conv = [max_iters |-> 1, abs_resid |-> 0, rel_resid |-> 0, update |-> 0,
             wrms_rtol |-> 0, wrms_atol |-> 0]
  /\ conv_req = [flag |-> [absresid |-> 0, relresid |-> 0, wrms |-> 0, update |-> 0],
                 conv |-> [max_iters |-> 1, abs_resid |-> 0, rel_resid |-> 0,
                           update |-> 0, wrms_rtol |-> 0, wrms_atol |-> 0]]
  /\ ls_type = "GMRES"
  /\ ls_max_iters = 1
  /\ ls_tolerance = 1
  /\ ls_sizeof_krylov_subspace = 1
  /\ ls_req = [type |-> "GMRES", max_iters |-> 1, tolerance |-> 1, krylov |-> 1]
  /\ precond_type = NoPrecondName
  /\ precond = NoPrecond
  /\ pc_req = [kind |-> "none", val |-> NoPrecond, before |-> "none"]
  /\ num_iters = 0
  /\ phase = "Idle"
  /\ status = "none"
  /\ x = 0 /\ x0 = 0 /\ rnorm = 0 /\ r0 = 0 /\ dx = 0 /\ retries = 0
  /\ fOK = FALSE
  /\ everSat = FALSE
  /\ last = "none"
  /\ did = NoneDone

ConvCall ==
  \/ Call_set_conv_iters
  \/ Call_set_conv_abs_resid
  \/ Call_set_conv_rel_resid
  \/ Call_disable_abs_resid
  \/ Call_disable_rel_resid
  \/ Call_set_conv_update
  \/ Call_set_conv_wrms

\* Convergence configuration and solve.
Next == ConvCall \/ Solve \/ SolveStep

Spec == Init /\ [][Next]_vars

\* The convergence configuration calls alone, in any number and order.
SpecConf == Init /\ [][ConvCall]_vars

\* Linear-solver and preconditioner configuration, the absolute-residual
\* test, and solve.
NextSetup ==
  \/ Call_set_conv_abs_resid
  \/ Call_set_ls_type
  \/ Call_set_ls_max_iters
  \/ Call_set_ls_tolerance
  \/ Call_set_ls_sizeof_krylov_subspace
  \/ Call_set_precond_object
  \/ Call_set_precond_name
  \/ Solve
  \/ SolveStep

SpecSetup == Init /\ [][NextSetup]_vars

\* solve is a blocking call: once entered, its steps keep being taken until
\* it returns (weak fairness of the solve steps).
NextLive ==
  \/ Call_set_conv_iters
  \/ Call_set_conv_abs_resid
  \/ Solve
  \/ SolveStep

SpecLive == Init /\ [][NextLive]_vars /\ WF_vars(SolveStep)

\* ------------------------------------------------------------------ claims

\* The tests the caller's calls have enabled, with the tolerances they gave.
SomeEnabledTestSatisfied ==
  \E t \in Tests : conv_req.flag[t] = 1 /\ TestSatisfied(conv_req.conv, t)

NoEnabledTestSatisfied ==
  \A t \in Tests : conv_req.flag[t] = 1 => ~TestSatisfied(conv_req.conv, t)

\* The cap the caller set through set_conv_iters.
CapSet == conv_req.conv.max_iters

\* C1 as stated: whenever a solve ends and no enabled value-based test was
\* satisfied at any evaluation of the run, it has failed after exactly
\* max_iters outer iterations.
C1_CapExactAsStated ==
  (phase \in Terminal /\ ~everSat) =>
    (status # "converged" /\ num_iters = CapSet)

\* C1 amended: a solve never performs more than max_iters outer iterations;
\* when it ends with no enabled value-based test ever satisfied it reports
\* failure, and unless the engine aborted it with a fatal failure it has
\* performed exactly max_iters outer iterations.
C1_CapEnforced ==
  /\ phase # "Idle" => num_iters <= CapSet
  /\ (phase \in Terminal /\ ~everSat) => status \in {"cap", "fatal", "config_error"}
  /\ (phase \in Terminal /\ ~everSat /\ status \notin {"fatal", "config_error"}) =>
       (status = "cap" /\ num_iters = CapSet)

\* A solve with no value-based test enabled that ran into a positive cap.
C1_Witness ==
  /\ phase = "Failed"
  /\ status = "cap"
  /\ \A t \in Tests : conv_req.flag[t] = 0
  /\ CapSet = MaxIters
  /\ num_iters = MaxIters

\* C2: solve reports converged only at an evaluation where some enabled test
\* is satisfied, and goes on to the Jacobian or fails on the cap only when no
\* enabled test is satisfied; a disabled test does not count.
C2_SuccessIsOrOfEnabled ==
  /\ phase = "Converged" => SomeEnabledTestSatisfied
  /\ phase \in {"Jac", "Prec"} => NoEnabledTestSatisfied
  /\ (phase = "Failed" /\ status = "cap") => NoEnabledTestSatisfied

\* Converged on the update test while the enabled absolute-residual test is
\* not satisfied and the disabled relative-residual test would be.
C2_Witness ==
  /\ phase = "Converged"
  /\ conv_req.flag.absresid = 1 /\ ~TestSatisfied(conv_req.conv, "absresid")
  /\ conv_req.flag.update = 1 /\ TestSatisfied(conv_req.conv, "update")
  /\ conv_req.flag.relresid = 0 /\ TestSatisfied(conv_req.conv, "relresid")
  /\ conv_req.conv.rel_resid = 1

\* C3: when a solve ends at an evaluation where an enabled value-based test is
\* satisfied and the iteration cap is reached too, it reports converged.
C3_ValueTestBeatsCap ==
  (/\ phase \in Terminal
   /\ last = "T"
   /\ num_iters >= CapSet
   /\ SomeEnabledTestSatisfied) => status = "converged"

\* Converged at the iteration whose index equals a positive cap.
C3_Witness ==
  /\ phase = "Converged"
  /\ CapSet > 0
  /\ num_iters = CapSet
  /\ SomeEnabledTestSatisfied

\* C4 as stated: with a cap of 0 every solve ends in failure with no Jacobian
\* evaluation, no Newton step, the vector at the initial guess and 0 outer
\* iterations.
C4_CapZeroAsStated ==
  (phase \in Terminal /\ CapSet = 0) =>
    /\ status # "converged"
    /\ ~did.jac /\ ~did.prec /\ ~did.step
    /\ x = x0
    /\ num_iters = 0

\* C4 amended: with a cap of 0 a solve ends with no Jacobian evaluation, no
\* Newton step, the vector at the initial guess and 0 outer iterations; it
\* reports failure unless an enabled value-based test is satisfied at the
\* initial guess, in which case it reports converged.
C4_CapZero ==
  (phase \in Terminal /\ CapSet = 0) =>
    /\ ~did.jac /\ ~did.prec /\ ~did.step
    /\ x = x0
    /\ num_iters = 0
    /\ status = "converged" <=> (last = "T" /\ SomeEnabledTestSatisfied)

\* A solve with cap 0 that failed on the cap at the initial guess.
C4_Witness ==
  /\ phase = "Failed"
  /\ status = "cap"
  /\ CapSet = 0
  /\ conv_req.flag.absresid = 1
  /\ x0 = MaxVal

\* C5: the convergence setters are idempotent, the last call for a test
\* wins whatever came before it, and calls for different tests commute: the
\* configuration the composite test reads (conv_flag, conv) depends on the
\* last call per test only.
C5_ConfigOrderIndependent ==
  LET c == Cfg IN
  /\ \A r \in Tols :
       /\ set_conv_abs_resid(set_conv_abs_resid(c, r), r) = set_conv_abs_resid(c, r)
       /\ set_conv_rel_resid(set_conv_rel_resid(c, r), r) = set_conv_rel_resid(c, r)
       /\ set_conv_update(set_conv_update(c, r), r) = set_conv_update(c, r)
       /\ set_conv_abs_resid(disable_abs_resid(c), r) = set_conv_abs_resid(c, r)
       /\ set_conv_rel_resid(disable_rel_resid(c), r) = set_conv_rel_resid(c, r)
       /\ disable_abs_resid(set_conv_rel_resid(c, r)) =
            set_conv_rel_resid(disable_abs_resid(c), r)
       /\ disable_rel_resid(set_conv_abs_resid(c, r)) =
            set_conv_abs_resid(disable_rel_resid(c), r)
       /\ disable_rel_resid(set_conv_update(c, r)) =
            set_conv_update(disable_rel_resid(c), r)
       /\ disable_abs_resid(set_conv_update(c, r)) =
            set_conv_update(disable_abs_resid(c), r)
  /\ disable_abs_resid(disable_abs_resid(c)) = disable_abs_resid(c)
  /\ disable_rel_resid(disable_rel_resid(c)) = disable_rel_resid(c)
  /\ disable_abs_resid(disable_rel_resid(c)) = disable_rel_resid(disable_abs_resid(c))
  /\ \A r1 \in Tols, r2 \in Tols :
       /\ set_conv_abs_resid(set_conv_abs_resid(c, r1), r2) = set_conv_abs_resid(c, r2)
       /\ set_conv_rel_resid(set_conv_rel_resid(c, r1), r2) = set_conv_rel_resid(c, r2)
       /\ set_conv_update(set_conv_update(c, r1), r2) = set_conv_update(c, r2)
       /\ set_conv_abs_resid(set_conv_rel_resid(c, r1), r2) =
            set_conv_rel_resid(set_conv_abs_resid(c, r2), r1)
       /\ set_conv_abs_resid(set_conv_update(c, r1), r2) =
            set_conv_update(set_conv_abs_resid(c, r2), r1)
       /\ set_conv_rel_resid(set_conv_update(c, r1), r2) =
            set_conv_update(set_conv_rel_resid(c, r2), r1)
       /\ set_conv_wrms(set_conv_wrms(c, r1, r2), r1, r2) = set_conv_wrms(c, r1, r2)
       /\ disable_abs_resid(set_conv_wrms(c, r1, r2)) =
            set_conv_wrms(disable_abs_resid(c), r1, r2)
       /\ disable_rel_resid(set_conv_wrms(c, r1, r2)) =
            set_conv_wrms(disable_rel_resid(c), r1, r2)
       /\ \A r3 \in Tols :
            /\ set_conv_abs_resid(set_conv_wrms(c, r1, r2), r3) =
                 set_conv_wrms(set_conv_abs_resid(c, r3), r1, r2)
            /\ set_conv_rel_resid(set_conv_wrms(c, r1, r2), r3) =
                 set_conv_wrms(set_conv_rel_resid(c, r3), r1, r2)
            /\ set_conv_update(set_conv_wrms(c, r1, r2), r3) =
                 set_conv_wrms(set_conv_update(c, r3), r1, r2)

\* The absolute test was set and disabled again and the relative one, the
\* update test and the wrms test were enabled.
C5_Witness ==
  /\ conv_flag.absresid = 0
  /\ conv.abs_resid = 1
  /\ conv_flag.relresid = 1
  /\ conv.rel_resid = 1
  /\ conv_flag.update = 1
  /\ conv_flag.wrms = 1
  /\ conv.wrms_atol = 1
  /\ conv = conv_req.conv
  /\ conv_flag = conv_req.flag

\* Caller's view of the linear-solver configuration: the arguments it passed
\* last are a documented method, a positive cap and a positive tolerance.
LSRequestValid ==
  /\ ls_req.type \in LSTypes
  /\ ls_req.max_iters > 0
  /\ ls_req.tolerance > 0

\* C6: no solve iterates with an unrecognized method, a non-positive
\* linear-iteration cap or a non-positive tolerance passed by the caller;
\* such a solve ends at entry with a configuration error and nothing done;
\* the values are stored as passed; a configuration error has no other cause,
\* in particular not the Krylov subspace size.
C6_LinearSolverConfigValidated ==
  /\ (phase # "Idle" /\ status # "config_error") => LSRequestValid
  /\ (phase # "Idle" /\ ~LSRequestValid) =>
       /\ phase = "Failed"
       /\ status = "config_error"
       /\ num_iters = 0
       /\ last = "none"
       /\ did = NoneDone
  /\ (phase # "Idle" /\ status = "config_error") => ~LSRequestValid
  /\ ls_type = ls_req.type
  /\ ls_max_iters = ls_req.max_iters
  /\ ls_tolerance = ls_req.tolerance
  /\ ls_sizeof_krylov_subspace = ls_req.krylov

\* A solve refused at entry for a cap of 0 on the linear iterations.
C6_Witness ==
  /\ phase = "Failed"
  /\ status = "config_error"
  /\ ls_req.type = "CG"
  /\ ls_req.max_iters = 0
  /\ ls_req.tolerance = 1

\* C7: at most one of the preconditioner object and the built-in
\* preconditioner name is set, and it is the one the most recent set_precond
\* call gave.
C7_PrecondExclusive ==
  /\ ~(precond # NoPrecond /\ precond_type # NoPrecondName)
  /\ pc_req.kind = "none" => (precond = NoPrecond /\ precond_type = NoPrecondName)
  /\ pc_req.kind = "object" => (precond = pc_req.val /\ precond_type = NoPrecondName)
  /\ pc_req.kind = "name" => (precond = NoPrecond /\ precond_type = pc_req.val)

\* A solve running with a built-in preconditioner named after an object had
\* been attached.
C7_Witness ==
  /\ pc_req.kind = "name"
  /\ pc_req.before = "object"
  /\ phase = "Step"

C10_UpdateWrmsEnableOnly ==
  /\ [][ /\ conv_flag.update = 1 => conv_flag'.update = 1
         /\ conv_flag.wrms = 1 => conv_flag'.wrms = 1 ]_vars
  /\ [](\A r \in Tols :
          /\ set_conv_abs_resid(Cfg, r).flag.absresid = 1
          /\ set_conv_rel_resid(Cfg, r).flag.relresid = 1)

\* Both flags still 1 after the residual tests were set and disabled again
\* and a solve has returned.
C10_Witness ==
  /\ conv_flag.update = 1
  /\ conv_flag.wrms = 1
  /\ conv_flag.absresid = 0 /\ conv.abs_resid = 1
  /\ conv_flag.relresid = 0 /\ conv.rel_resid = 1
  /\ phase = "Idle"
  /\ status = "cap"

=============================================================================
